---- MODULE Spec2Model ----
(***************************************************************************)
(* State-machine model of the conversation orchestrator of FullTask AI     *)
(* Lite (src/src/app.component.ts) and of the gateway it drives            *)
(* (src/src/models/chat.model.ts).                                         *)
(*                                                                         *)
(* app.component.ts holds two versions of AppComponent: lines 26-378       *)
(* (persistence, audio attachments, per-handler error handling) and lines  *)
(* 407-686 (try/catch/finally in sendMessage).  The variable `ver` says    *)
(* which of the two a behaviour runs; it never changes.                    *)
(*                                                                         *)
(* JavaScript runs each handler to its next await without interruption, so *)
(* every action below is one such synchronous segment: a user event, or    *)
(* the continuation run when an awaited gateway/browser call settles.      *)
(*                                                                         *)
(* Conventions.  A text is a sequence of tokens (a token is one piece of   *)
(* text; " " is white space; each fixed message of the program is one      *)
(* token).  An optional value (`x?: T`, `T | null`) is a sequence of       *)
(* length 0 (absent) or 1 (present).                                       *)
(***************************************************************************)
EXTENDS Naturals, Sequences, FiniteSets, TLC

\* ------------------------------------------------------------- bounds
MaxClock == 2       \* Date.now() takes values 0..MaxClock
MaxHistory == 4     \* a send is modelled only while the history has room
MaxFrags == 2       \* fragments the provider delivers per stream
MaxPolls == 2       \* getVideosOperation calls per video flow
MaxFlows == 2       \* sendMessage activations that exist at the same time
MaxPending == 1     \* transcriptions, playAudio tasks
MaxRequests == 2    \* startRecording calls awaiting getUserMedia
MaxStreams == 2     \* microphone streams granted and not yet stopped

\* ------------------------------------------------------- fixed texts
StreamErrorText == <<"An error occurred. Please check the console for details.">>
ImageFailText == <<"Sorry, I was unable to generate the image. Please try again.">>
VideoFailText == <<"Sorry, I was unable to generate the video. Please try again or check the console.">>
VideoFailText2 == <<"Sorry, video generation failed.">>
SendFailText == <<"I'm sorry, I encountered an error. Please try again.">>
VideoStartText == <<"Starting video generation... This may take a few minutes.">>
VideoProcessingText == <<"Processing video request... The AI is thinking.">>
VideoDownloadingText == <<"Video processed! Downloading...">>
VideoStartedText2 == <<"Video generation started... This might take a few minutes.">>
VideoProgressText2 == <<"Video generation in progress... Status: ">>
ImageGeneratingText(t) == <<"Generating an image for: \"">> \o t \o <<"\"">>
ImageDoneText2(t) == <<"Here is the generated image for: \"">> \o t \o <<"\"">>
VideoDoneText2(t) == <<"Here is the generated video for: \"">> \o t \o <<"\"">>
MicDeniedText == <<"Microphone permission denied. Please allow access in your browser settings.">>
MicUnavailableText == <<"Could not access the microphone. Please ensure it is connected and enabled.">>

\* ------------------------------------------------------------ values
None == <<>>
Some(x) == <<x>>
IsSome(o) == Len(o) > 0
Get(o) == o[1]

Modes == {"chat", "image", "video"}

\* String.prototype.trim: white space removed at both ends.
RECURSIVE TrimStart(_)
TrimStart(s) == IF s # <<>> /\ Head(s) = " " THEN TrimStart(Tail(s)) ELSE s
RECURSIVE TrimEnd(_)
TrimEnd(s) ==
  IF s # <<>> /\ s[Len(s)] = " " THEN TrimEnd(SubSeq(s, 1, Len(s) - 1)) ELSE s
Trim(s) == TrimEnd(TrimStart(s))

\* What the user can type, the suggested prompts, what a transcription says.
InputTexts == {<<>>, <<" ">>, <<" ", "a">>}
Prompts == {<<"p">>, <<" ">>}
Transcripts == {<<>>, <<"t", " ">>}

\* mimeType.startsWith(prefix), for the mime types of the model.
MimeTypes == {"image/png", "video/mp4", "audio/webm", "application/pdf"}
StartsWith(mime, prefix) ==
  \/ prefix = "image/" /\ mime = "image/png"
  \/ prefix = "video/" /\ mime = "video/mp4"
  \/ prefix = "audio/" /\ mime = "audio/webm"

\* fileToBase64: the attachment of a chosen file.
FileToBase64(mime) == [dataUrl |-> "file", mimeType |-> mime]

\* Fragments of a stream: {text?, groundingChunks?}.
FA == [text |-> None, groundingChunks |-> None]
FB == [text |-> Some(<<"a">>), groundingChunks |-> Some(<<"c1">>)]
FC == [text |-> Some(<<"b">>), groundingChunks |-> Some(<<"c2">>)]
Fragments == {FA, FB, FC}

\* chunk.text || ''
ChunkText(chunk) == IF IsSome(chunk.text) THEN Get(chunk.text) ELSE <<>>

\* Job handles of the video provider: done flag and, when done, a result URI.
Uris == {"U", "V"}
Operations ==
  {[done |-> FALSE, uri |-> None], [done |-> TRUE, uri |-> None]}
    \cup {[done |-> TRUE, uri |-> Some(u)] : u \in Uris}

\* ------------------------------------------------------------ messages
Message(id, role, text) ==
  [id |-> id, role |-> role, text |-> text, image |-> None, video |-> None,
   audio |-> None, groundingChunks |-> None, isLoading |-> FALSE,
   isPlayingAudio |-> FALSE]

\* Variant of MapById that keeps only the message with the given id.
MapByIdOnly(history, id, updated) ==
  IF \E i \in 1..Len(history) : history[i].id = id
  THEN <<updated[CHOOSE i \in 1..Len(history) : history[i].id = id]>>
  ELSE <<>>

\* history.map(m => m.id === id ? {...m, ...} : m), updated[i] being the
\* object the arrow function builds from history[i].
MapById(history, id, updated) ==
  [i \in 1..Len(history) |-> IF history[i].id = id THEN updated[i] ELSE history[i]]

\* ------------------------------------------------------------ storage
\* The local-storage entry under storageKey: absent, the empty string, a
\* string that is not JSON, JSON that is no array, or a JSON array of
\* entries.
Absent == [kind |-> "absent", items |-> <<>>]
EmptyString == [kind |-> "empty", items |-> <<>>]
Unparseable == [kind |-> "unparseable", items |-> <<>>]
NonList == [kind |-> "nonlist", items |-> <<>>]
StoredList(items) == [kind |-> "list", items |-> items]

Entry(role, text, gc) == [role |-> role, text |-> text, groundingChunks |-> gc]

\* Variant of Serialize that stores the messages as they are.
SerializeWholeMessages(history) == StoredList(history)

\* Variant of Serialize that leaves the citations out of the stored entries.
SerializeWithoutCitations(history) ==
  StoredList([i \in 1..Len(history) |->
    [role |-> history[i].role, text |-> history[i].text,
     groundingChunks |-> None]])

\* saveChatHistory's value: JSON.stringify of role/text/groundingChunks.
Serialize(history) ==
  StoredList([i \in 1..Len(history) |->
    [role |-> history[i].role, text |-> history[i].text,
     groundingChunks |-> history[i].groundingChunks]])

\* loadChatHistory's parsedHistory.map((msg, index) => ...).
HistoryWithIds(items, t) ==
  [i \in 1..Len(items) |->
    [Message(t + (i - 1), items[i].role, items[i].text)
       EXCEPT !.groundingChunks = items[i].groundingChunks]]

\* loadChatHistory: the history and the storage entry it leaves.
LoadChatHistory(st, t) ==
  CASE st.kind \in {"absent", "empty"} -> [history |-> <<>>, storage |-> st]
    [] st.kind = "list" -> [history |-> HistoryWithIds(st.items, t), storage |-> st]
    [] OTHER -> [history |-> <<>>, storage |-> Absent]

InitialStorages ==
  {Absent, Unparseable, NonList,
   StoredList(<<Entry("user", <<"a">>, None),
                Entry("model", <<"b">>, Some(<<"c1">>))>>)}

\* An element of a stored array that is no message (a number, null, {}):
\* the spread of line 89 copies no role and no text from it.
NotAMessage == Entry("undefined", <<>>, None)

\* What another page of the origin, or an earlier release, may have left
\* under the key.
StoredValues ==
  InitialStorages \cup {EmptyString, StoredList(<<NotAMessage>>)}

\* -------------------------------------------------------------- state
VARIABLES
  ver,            \* which AppComponent of app.component.ts runs: 1 or 2
  now,            \* Date.now()
  currentMode, chatHistory, isLoading, isRecording, micError,
  userInput, uploadedFile,
  storage,        \* the local-storage entry under storageKey
  savePending,    \* the save effect is scheduled (chatHistory changed)
  flows,          \* the activations of sendMessage that have not returned
  micPending,     \* startRecording calls awaiting getUserMedia
  mediaRecorder,  \* None, or the state of the current MediaRecorder
  liveStreams,    \* granted microphone streams whose tracks were not stopped
  transcribing,   \* onstop handlers running: how many encode, how many stream
  audioTasks,     \* playAudio activations: a sequence of [id, pc]
  last            \* what the last step was, where a property needs to know

vars ==
  <<ver, now, currentMode, chatHistory, isLoading, isRecording, micError,
    userInput, uploadedFile, storage, savePending, flows, micPending,
    mediaRecorder, liveStreams, transcribing, audioTasks, last>>

ui == <<currentMode, userInput, uploadedFile>>
rec == <<isRecording, micError, micPending, mediaRecorder, liveStreams, transcribing>>

\* One activation of sendMessage and of the handler it awaits.  modelId,
\* userText, fullText, groundingChunks, operation are the locals of the
\* code; frags (the fragments received), polls, notDone (handles seen with
\* done = false) and pos (where the placeholder sits in chatHistory, 0 once
\* the history was cleared) only record what happened.
IdleFlow ==
  [pc |-> "idle", modelId |-> 0, userText |-> <<>>, fullText |-> <<>>,
   groundingChunks |-> <<>>, frags |-> <<>>, polls |-> 0, notDone |-> 0,
   operation |-> [done |-> FALSE, uri |-> None], pos |-> 0]

\* last: "return" with the activation that returned and how it ended ("ok",
\* "streamError": the provider failed in a chat stream, "failed": a gateway
\* call rejected, "noUri": the job ended without a result), "reload",
\* "newConversation", "newConversationSaved" (the save effect ran right
\* after startNewConversation), or "none".
Quiet == [op |-> "none", flow |-> IdleFlow, outcome |-> "none"]
Returned(f, outcome) == [op |-> "return", flow |-> f, outcome |-> outcome]

FlowIds == 1..MaxFlows
Active(k) == flows[k].pc # "idle"

\* The constructor (lines 54-68, 435-443): fields at their initial values;
\* version 1 loads the history and schedules the save effect's first run.
Construct(v, t, st) ==
  LET loaded == IF v = 1 THEN LoadChatHistory(st, t)
                ELSE [history |-> <<>>, storage |-> st]
  IN /\ ver' = v
     /\ now' = t
     /\ currentMode' = "chat"
     /\ chatHistory' = loaded.history
     /\ isLoading' = FALSE
     /\ isRecording' = FALSE
     /\ micError' = None
     /\ userInput' = <<>>
     /\ uploadedFile' = None
     /\ storage' = loaded.storage
     /\ savePending' = (v = 1)
     /\ flows' = [k \in FlowIds |-> IdleFlow]
     /\ micPending' = 0
     /\ mediaRecorder' = None
     /\ liveStreams' = 0
     /\ transcribing' = [encoding |-> 0, streaming |-> 0]
     /\ audioTasks' = <<>>
     /\ last' = [Quiet EXCEPT !.op = "reload"]

\* Version 2 never reads or writes the storage entry: it starts absent.
Init ==
  \E v \in {1, 2} : \E st \in IF v = 1 THEN InitialStorages ELSE {Absent} :
    LET loaded == IF v = 1 THEN LoadChatHistory(st, 0)
                  ELSE [history |-> <<>>, storage |-> st]
    IN /\ ver = v
       /\ now = 0
       /\ currentMode = "chat"
       /\ chatHistory = loaded.history
       /\ isLoading = FALSE
       /\ isRecording = FALSE
       /\ micError = None
       /\ userInput = <<>>
       /\ uploadedFile = None
       /\ storage = loaded.storage
       /\ savePending = (v = 1)
       /\ flows = [k \in FlowIds |-> IdleFlow]
       /\ micPending = 0
       /\ mediaRecorder = None
       /\ liveStreams = 0
       /\ transcribing = [encoding |-> 0, streaming |-> 0]
       /\ audioTasks = <<>>
       /\ last = Quiet

\* The page is loaded again: a new component over the same storage.
Reload == Construct(ver, now, storage)

\* ------------------------------------------------------ environment
\* The entry under the key is changed from outside the component.
StorageEdited ==
  /\ ver = 1
  /\ \E st \in StoredValues : storage' = st
  /\ last' = Quiet
  /\ UNCHANGED <<ver, now, chatHistory, isLoading, savePending, flows,
                 audioTasks, ui, rec>>

Tick ==
  /\ now < MaxClock
  /\ now' = now + 1
  /\ last' = Quiet /\ UNCHANGED <<ver, chatHistory, isLoading, storage, savePending, flows,
                 audioTasks, ui, rec>>

\* The template's two-way binding of the input box.
SetInputOf(texts) ==
  \E t \in texts :
    /\ userInput' = t
    /\ last' = Quiet /\ UNCHANGED <<ver, now, currentMode, chatHistory, isLoading, uploadedFile,
                   storage, savePending, flows, audioTasks, rec>>

SetInput == SetInputOf(InputTexts)
SetInputA == SetInputOf({<<" ", "a">>})

SetModeOf(modes) ==
  \E m \in modes :
    /\ currentMode' = m
    /\ last' = Quiet /\ UNCHANGED <<ver, now, userInput, chatHistory, isLoading, uploadedFile,
                   storage, savePending, flows, audioTasks, rec>>

SetMode == SetModeOf(Modes)
SetVideoMode == SetModeOf({"video"})

\* handleFileSelected: the file read completes and the upload is set.
HandleFileSelectedOf(mimes) ==
  \E f \in mimes :
    /\ uploadedFile' = Some(FileToBase64(f))
    /\ last' = Quiet /\ UNCHANGED <<ver, now, currentMode, userInput, chatHistory, isLoading,
                   storage, savePending, flows, audioTasks, rec>>

HandleFileSelected == HandleFileSelectedOf(MimeTypes)
HandleImageSelected == HandleFileSelectedOf({"image/png"})

RemoveUploadedFile ==
  /\ uploadedFile' = None
  /\ last' = Quiet /\ UNCHANGED <<ver, now, currentMode, userInput, chatHistory, isLoading,
                 storage, savePending, flows, audioTasks, rec>>

\* --------------------------------------------------------- persistence
\* The effect of lines 65-67 runs saveChatHistory once after the history
\* changed; setItem stores the value, or throws (quota) and is caught.
SaveChatHistory(history, st, stored) == IF stored THEN Serialize(history) ELSE st

SaveEffect ==
  /\ ver = 1
  /\ savePending
  /\ \E stored \in BOOLEAN : storage' = SaveChatHistory(chatHistory, storage, stored)
  /\ savePending' = FALSE
  /\ last' = IF last.op = "newConversation"
             THEN [Quiet EXCEPT !.op = "newConversationSaved"] ELSE Quiet
  /\ UNCHANGED <<ver, now, chatHistory, isLoading, flows, audioTasks, ui, rec>>

\* startNewConversation's four assignments, on the fields it touches.
NewConversation ==
  /\ chatHistory' = <<>>
  /\ storage' = Absent
  /\ savePending' = TRUE

\* Every activation loses its placeholder when the history is cleared.
Orphaned(fl) == [k \in FlowIds |-> [fl[k] EXCEPT !.pos = 0]]

StartNewConversation ==
  /\ ver = 1
  /\ NewConversation
  /\ userInput' = <<>>
  /\ uploadedFile' = None
  /\ flows' = Orphaned(flows)
  /\ last' = [Quiet EXCEPT !.op = "newConversation"]
  /\ UNCHANGED <<ver, now, currentMode, isLoading, audioTasks, rec>>

\* --------------------------------------------------------- sendMessage
\* Variant of SendGuard without the test of the loading flag.
SendGuardIgnoresLoading(input, upload, loading) ==
  ~(Trim(input) = <<>> /\ ~IsSome(upload))

\* The guard of lines 227-230 / 555-558: true when sendMessage goes on.
SendGuard(input, upload, loading) ==
  ~((Trim(input) = <<>> /\ ~IsSome(upload)) \/ loading)

\* The user message of lines 234-241 / 563-569.
Classified(upload, prefix) ==
  IF IsSome(upload) /\ StartsWith(Get(upload).mimeType, prefix) THEN upload ELSE None

UserMessage(v, t, input, upload) ==
  [Message(t, "user", Trim(input)) EXCEPT
     !.image = Classified(upload, "image/"),
     !.video = Classified(upload, "video/"),
     !.audio = IF v = 1 THEN Classified(upload, "audio/") ELSE None]

\* The placeholder: lines 264-270, 299-305, 329-335 (by mode) / 576-579.
PlaceholderText(v, mode, text) ==
  IF v = 2 \/ mode = "chat" THEN <<>>
  ELSE IF mode = "image" THEN ImageGeneratingText(text)
  ELSE VideoStartText

Placeholder(v, t, mode, text) ==
  [Message(t + 1, "model", PlaceholderText(v, mode, text)) EXCEPT !.isLoading = TRUE]

FirstPc(mode) ==
  IF mode = "chat" THEN "chat" ELSE IF mode = "image" THEN "image" ELSE "videoSubmit"

\* sendMessage up to its first await, from the given field values: the new
\* values of the fields it writes.  Version 2 clears the upload here.
Send(v, t, mode, history, input, upload, loading, fl) ==
  IF ~SendGuard(input, upload, loading)
  THEN [accepted |-> FALSE, history |-> history, input |-> input,
        upload |-> upload, loading |-> loading, flows |-> fl]
  ELSE
    LET user == UserMessage(v, t, input, upload)
        k == CHOOSE k \in FlowIds :
               fl[k].pc = "idle" /\ \A j \in FlowIds : j < k => fl[j].pc # "idle"
    IN [accepted |-> TRUE,
        history |-> history \o <<user, Placeholder(v, t, mode, user.text)>>,
        input |-> <<>>,
        upload |-> IF v = 2 THEN None ELSE upload,
        loading |-> TRUE,
        flows |-> [fl EXCEPT ![k] =
                    [IdleFlow EXCEPT !.pc = FirstPc(mode), !.modelId = t + 1,
                                     !.userText = user.text,
                                     !.pos = Len(history) + 2]]]

\* The model follows a send only while a flow slot and history room exist.
Room(history, fl) ==
  /\ \E k \in FlowIds : fl[k].pc = "idle"
  /\ Len(history) + 2 <= MaxHistory

SendMessage ==
  LET r == Send(ver, now, currentMode, chatHistory, userInput, uploadedFile,
                isLoading, flows)
  IN /\ SendGuard(userInput, uploadedFile, isLoading) => Room(chatHistory, flows)
     /\ chatHistory' = r.history
     /\ userInput' = r.input
     /\ uploadedFile' = r.upload
     /\ isLoading' = r.loading
     /\ flows' = r.flows
     /\ savePending' = IF r.accepted THEN (ver = 1) ELSE savePending
     /\ last' = Quiet /\ UNCHANGED <<ver, now, currentMode, storage, audioTasks, rec>>

\* startNewChat: lines 109-114 (the microtask runs before any other task)
\* and lines 681-685.
StartNewChatOf(prompt) ==
  LET h == IF ver = 1 THEN <<>> ELSE chatHistory
      up == IF ver = 1 THEN None ELSE uploadedFile
      mode == IF ver = 1 THEN currentMode ELSE "chat"
      fl == IF ver = 1 THEN Orphaned(flows) ELSE flows
      r == Send(ver, now, mode, h, prompt, up, isLoading, fl)
  IN /\ SendGuard(prompt, up, isLoading) => Room(h, fl)
     /\ chatHistory' = r.history
     /\ userInput' = r.input
     /\ uploadedFile' = r.upload
     /\ isLoading' = r.loading
     /\ flows' = r.flows
     /\ currentMode' = mode
     /\ storage' = IF ver = 1 THEN Absent ELSE storage
     /\ savePending' = IF ver = 1 THEN TRUE ELSE savePending
     /\ last' = Quiet /\ UNCHANGED <<ver, now, audioTasks, rec>>

StartNewChat == \E prompt \in Prompts : StartNewChatOf(prompt)

\* Variant of Return that leaves the global loading flag as it is.
ReturnKeepsLoading(k, f, outcome) ==
  /\ flows' = [flows EXCEPT ![k] = IdleFlow]
  /\ last' = Returned(f, outcome)
  /\ uploadedFile' = IF ver = 1 THEN None ELSE uploadedFile
  /\ isLoading' = isLoading

\* The end of sendMessage once its handler returned: lines 259-260 / 600-602.
Return(k, f, outcome) ==
  /\ flows' = [flows EXCEPT ![k] = IdleFlow]
  /\ last' = Returned(f, outcome)
  /\ uploadedFile' = IF ver = 1 THEN None ELSE uploadedFile
  /\ isLoading' = FALSE

\* history.map(m => m.id === id ? {...m, text, isLoading: false} : m)
Settle(history, id, text) ==
  MapById(history, id,
    [i \in 1..Len(history) |-> LET m == history[i] IN
      [m EXCEPT !.text = text, !.isLoading = FALSE]])

SetText(history, id, text) ==
  MapById(history, id,
    [i \in 1..Len(history) |-> LET m == history[i] IN
      [m EXCEPT !.text = text]])

\* Variant of FailText with the image handler's text for every handler.
FailTextOfImage(v, pc) ==
  IF v = 2 THEN SendFailText ELSE ImageFailText

\* A handler threw: caught by the handler (version 1) or by sendMessage's
\* catch (version 2, lines 593-599).
FailText(v, pc) ==
  IF v = 2 THEN SendFailText
  ELSE IF pc = "image" THEN ImageFailText ELSE VideoFailText

Fail(k) ==
  /\ chatHistory' = Settle(chatHistory, flows[k].modelId, FailText(ver, flows[k].pc))
  /\ savePending' = (ver = 1)
  /\ Return(k, flows[k], "failed")
  /\ UNCHANGED <<ver, now, currentMode, userInput, storage, audioTasks, rec>>

\* ---------------------------------------------------------- handleChat
\* Variant of ChatUpdate that assigns the fragment's text instead of
\* appending it.
ChatUpdateAssigns(v, history, f, chunk) ==
  IF v = 1
  THEN LET text == ChunkText(chunk)
           gcs == IF IsSome(chunk.groundingChunks)
                  THEN f.groundingChunks \o Get(chunk.groundingChunks)
                  ELSE f.groundingChunks
       IN [history |-> MapById(history, f.modelId,
                         [i \in 1..Len(history) |-> LET m == history[i] IN [m EXCEPT !.text = text,
                                              !.groundingChunks = Some(gcs)]]),
           flow |-> [f EXCEPT !.fullText = text, !.groundingChunks = gcs,
                              !.frags = Append(f.frags, chunk)]]
  ELSE [history |-> MapById(history, f.modelId,
                      [i \in 1..Len(history) |-> LET m == history[i] IN [m EXCEPT
                        !.text = ChunkText(chunk),
                        !.groundingChunks =
                          IF IsSome(chunk.groundingChunks)
                          THEN chunk.groundingChunks ELSE m.groundingChunks]]),
        flow |-> [f EXCEPT !.frags = Append(f.frags, chunk)]]

\* One pass of the loop of lines 287-293 / 615-628.
ChatUpdate(v, history, f, chunk) ==
  IF v = 1
  THEN LET text == f.fullText \o ChunkText(chunk)
           gcs == IF IsSome(chunk.groundingChunks)
                  THEN f.groundingChunks \o Get(chunk.groundingChunks)
                  ELSE f.groundingChunks
       IN [history |-> MapById(history, f.modelId,
                         [i \in 1..Len(history) |-> LET m == history[i] IN [m EXCEPT !.text = text,
                                              !.groundingChunks = Some(gcs)]]),
           flow |-> [f EXCEPT !.fullText = text, !.groundingChunks = gcs,
                              !.frags = Append(f.frags, chunk)]]
  ELSE [history |-> MapById(history, f.modelId,
                      [i \in 1..Len(history) |-> LET m == history[i] IN [m EXCEPT
                        !.text = m.text \o ChunkText(chunk),
                        !.groundingChunks =
                          IF IsSome(chunk.groundingChunks)
                          THEN chunk.groundingChunks ELSE m.groundingChunks]]),
        flow |-> [f EXCEPT !.frags = Append(f.frags, chunk)]]

\* The loop's exit, line 295 / 630.
ChatEnd(history, id) ==
  MapById(history, id,
    [i \in 1..Len(history) |-> LET m == history[i] IN
      [m EXCEPT !.isLoading = FALSE]])

ChatFragmentOf(k, chunks) ==
  /\ flows[k].pc = "chat"
  /\ Len(flows[k].frags) < MaxFrags
  /\ \E chunk \in chunks :
       LET u == ChatUpdate(ver, chatHistory, flows[k], chunk)
       IN /\ chatHistory' = u.history
          /\ flows' = [flows EXCEPT ![k] = u.flow]
  /\ savePending' = (ver = 1)
  /\ last' = Quiet /\ UNCHANGED <<ver, now, isLoading, storage, audioTasks, ui, rec>>

ChatFragment(k) == ChatFragmentOf(k, Fragments)
ChatFragmentB(k) == ChatFragmentOf(k, {FB})

ChatStreamEnd(k) ==
  /\ flows[k].pc = "chat"
  /\ chatHistory' = ChatEnd(chatHistory, flows[k].modelId)
  /\ savePending' = (ver = 1)
  /\ Return(k, flows[k], "ok")
  /\ UNCHANGED <<ver, now, currentMode, userInput, storage, audioTasks, rec>>

\* generateContentStream's catch (chat.model.ts lines 87-90): the provider
\* failed; the generator yields the error fragment and ends.
ErrorFragment == [text |-> Some(StreamErrorText), groundingChunks |-> None]

ChatProviderError(k) ==
  /\ flows[k].pc = "chat"
  /\ LET u == ChatUpdate(ver, chatHistory, flows[k], ErrorFragment)
     IN /\ chatHistory' = ChatEnd(u.history, flows[k].modelId)
        /\ Return(k, u.flow, "streamError")
  /\ savePending' = (ver = 1)
  /\ UNCHANGED <<ver, now, currentMode, userInput, storage, audioTasks, rec>>

\* ----------------------------------------------- handleImageGeneration
GeneratedImage == [dataUrl |-> "data:image/png;base64", mimeType |-> "image/png"]

\* Lines 312-317 / 639-644.
ImageDone(v, history, f) ==
  MapById(history, f.modelId,
    [i \in 1..Len(history) |-> LET m == history[i] IN
      [m EXCEPT !.text = IF v = 1 THEN <<>> ELSE ImageDoneText2(f.userText),
                         !.image = Some(GeneratedImage),
                         !.isLoading = FALSE]])

ImageOk(k) ==
  /\ flows[k].pc = "image"
  /\ chatHistory' = ImageDone(ver, chatHistory, flows[k])
  /\ savePending' = (ver = 1)
  /\ Return(k, flows[k], "ok")
  /\ UNCHANGED <<ver, now, currentMode, userInput, storage, audioTasks, rec>>

ImageFail(k) == flows[k].pc = "image" /\ Fail(k)

\* ----------------------------------------------- handleVideoGeneration
\* Version 2, lines 664-668: fetch(uri), blob, fileToBase64 of a file of
\* type video/mp4: the bytes at uri.
FetchedVideo(uri) == [dataUrl |-> uri, mimeType |-> "video/mp4"]

\* Version 1 calls the gateway's fetchVideoAsDataUrl(uri) (line 358), which
\* the gateway of chat.model.ts does not define; taken from the
\* specification's video flow: "on success, fetch the resulting video bytes
\* and attach them".
FetchVideoAsDataUrl(uri) == uri

\* The text shown once the job was submitted (348 / 655), after a poll (660).
SubmittedText(v) == IF v = 1 THEN VideoProcessingText ELSE VideoStartedText2

\* Variant of VideoDone that attaches the video at one fixed address
\* whatever the final handle names.
VideoDoneFixedUri(v, history, f) ==
  MapById(history, f.modelId,
    [i \in 1..Len(history) |-> LET m == history[i] IN
      [m EXCEPT !.text = IF v = 1 THEN <<>> ELSE VideoDoneText2(f.userText),
                         !.video = Some(FetchedVideo("U")),
                         !.isLoading = FALSE]])

\* Lines 360-365 / 670-675.
VideoDone(v, history, f) ==
  MapById(history, f.modelId,
    [i \in 1..Len(history) |-> LET m == history[i] IN
      [m EXCEPT !.text = IF v = 1 THEN <<>> ELSE VideoDoneText2(f.userText),
                         !.video = Some(IF v = 1
                                        THEN [dataUrl |-> FetchVideoAsDataUrl(
                                                            Get(f.operation.uri)),
                                              mimeType |-> "video/mp4"]
                                        ELSE FetchedVideo(Get(f.operation.uri))),
                         !.isLoading = FALSE]])

\* The loop test of line 350 / 657 and what follows the loop, for the
\* handle just received and the history as updated so far.
AfterHandle(k, history, op) ==
  LET f == [flows[k] EXCEPT !.operation = op,
                            !.notDone = IF op.done THEN @ ELSE @ + 1]
  IN IF ~op.done
     THEN /\ chatHistory' = history
          /\ flows' = [flows EXCEPT ![k] = [f EXCEPT !.pc = "videoSleep"]]
          /\ last' = Quiet
          /\ UNCHANGED <<uploadedFile, isLoading>>
     ELSE IF IsSome(op.uri)
     THEN /\ chatHistory' = IF ver = 1
                            THEN SetText(history, f.modelId, VideoDownloadingText)
                            ELSE history
          /\ flows' = [flows EXCEPT ![k] = [f EXCEPT !.pc = "videoFetch"]]
          /\ last' = Quiet
          /\ UNCHANGED <<uploadedFile, isLoading>>
     ELSE /\ chatHistory' = Settle(history, f.modelId,
                              IF ver = 1 THEN VideoFailText ELSE VideoFailText2)
          /\ Return(k, f, "noUri")

\* generateVideo resolved: lines 346-348 / 653-655.
VideoSubmitted(k) ==
  /\ flows[k].pc = "videoSubmit"
  /\ \E op \in Operations :
       AfterHandle(k, SetText(chatHistory, flows[k].modelId, SubmittedText(ver)),
                   op)
  /\ savePending' = (ver = 1)
  /\ UNCHANGED <<ver, now, currentMode, userInput, storage, audioTasks, rec>>

\* The timer of line 351 / 658 fired: getVideosOperation is called.
VideoPoll(k) ==
  /\ flows[k].pc = "videoSleep"
  /\ flows[k].polls < MaxPolls
  /\ flows' = [flows EXCEPT ![k].pc = "videoPoll", ![k].polls = @ + 1]
  /\ last' = Quiet /\ UNCHANGED <<ver, now, chatHistory, isLoading, storage, savePending,
                 audioTasks, ui, rec>>

\* getVideosOperation resolved: line 352 / 659-660.
VideoPolled(k) ==
  /\ flows[k].pc = "videoPoll"
  /\ \E op \in Operations :
       AfterHandle(k, IF ver = 1 THEN chatHistory
                      ELSE SetText(chatHistory, flows[k].modelId, VideoProgressText2),
                   op)
  /\ savePending' = IF ver = 1 /\ chatHistory' # chatHistory THEN TRUE ELSE savePending
  /\ UNCHANGED <<ver, now, currentMode, userInput, storage, audioTasks, rec>>

VideoFetched(k) ==
  /\ flows[k].pc = "videoFetch"
  /\ chatHistory' = VideoDone(ver, chatHistory, flows[k])
  /\ savePending' = (ver = 1)
  /\ Return(k, flows[k], "ok")
  /\ UNCHANGED <<ver, now, currentMode, userInput, storage, audioTasks, rec>>

\* generateVideo, getVideosOperation or the fetch rejected.
VideoFail(k) ==
  /\ flows[k].pc \in {"videoSubmit", "videoPoll", "videoFetch"}
  /\ Fail(k)

\* ------------------------------------------------------------ recording
\* startRecording up to its await: lines 158-162 / 487-490.
StartRecording ==
  /\ micPending < MaxRequests
  /\ IF isRecording
     THEN UNCHANGED <<micError, micPending>>
     ELSE /\ micError' = None
          /\ micPending' = micPending + 1
  /\ last' = Quiet /\ UNCHANGED <<ver, now, chatHistory, isLoading, storage, savePending, flows,
                 audioTasks, ui, isRecording, mediaRecorder, liveStreams,
                 transcribing>>

\* getUserMedia resolved: lines 163-185 / 491-517; a MediaRecorder is made
\* for the granted stream, stored in this.mediaRecorder and started.
MicGranted ==
  /\ micPending > 0
  /\ liveStreams < MaxStreams
  /\ micPending' = micPending - 1
  /\ isRecording' = TRUE
  /\ mediaRecorder' = Some("recording")
  /\ liveStreams' = liveStreams + 1
  /\ last' = Quiet /\ UNCHANGED <<ver, now, chatHistory, isLoading, storage, savePending, flows,
                 audioTasks, ui, micError, transcribing>>

\* getUserMedia rejected: lines 186-194 / 518-521.
MicDenied ==
  /\ micPending > 0
  /\ micPending' = micPending - 1
  /\ isRecording' = FALSE
  /\ \E text \in {MicDeniedText, MicUnavailableText} :
       micError' = IF ver = 1 THEN Some(text) ELSE micError
  /\ last' = [Quiet EXCEPT !.op = "micDenied"]
  /\ UNCHANGED <<ver, now, chatHistory, isLoading, storage, savePending, flows,
                 audioTasks, ui, mediaRecorder, liveStreams, transcribing>>

\* stopRecording: lines 197-203 / 524-531; stop() queues the onstop handler
\* and the tracks of the current recorder's stream are stopped.
StopRecording ==
  /\ transcribing.encoding + transcribing.streaming < MaxPending
  /\ IF IsSome(mediaRecorder) /\ isRecording
     THEN /\ mediaRecorder' = Some("inactive")
          /\ isRecording' = FALSE
          /\ liveStreams' = liveStreams - 1
          /\ transcribing' = [transcribing EXCEPT !.encoding = @ + 1]
     ELSE UNCHANGED <<mediaRecorder, isRecording, liveStreams, transcribing>>
  /\ last' = Quiet /\ UNCHANGED <<ver, now, chatHistory, isLoading, storage, savePending, flows,
                 audioTasks, ui, micError, micPending>>

\* onstop after fileToBase64: lines 172-177 / 503-508.
TranscribeStart ==
  /\ transcribing.encoding > 0
  /\ transcribing' = [encoding |-> transcribing.encoding - 1,
                      streaming |-> transcribing.streaming + 1]
  /\ isLoading' = TRUE
  /\ last' = Quiet /\ UNCHANGED <<ver, now, chatHistory, storage, savePending, flows, audioTasks,
                 ui, isRecording, micError, micPending, mediaRecorder,
                 liveStreams>>

\* The transcription stream ended: lines 182-183 / 513-514.
TranscribeEnd ==
  /\ transcribing.streaming > 0
  /\ transcribing' = [transcribing EXCEPT !.streaming = @ - 1]
  /\ \E fullResponse \in Transcripts : userInput' = Trim(fullResponse)
  /\ isLoading' = FALSE
  /\ last' = Quiet /\ UNCHANGED <<ver, now, currentMode, uploadedFile, chatHistory, storage,
                 savePending, flows, audioTasks, isRecording, micError,
                 micPending, mediaRecorder, liveStreams>>

\* ------------------------------------------------------------ playAudio
SetPlaying(history, id, b) ==
  MapById(history, id,
    [i \in 1..Len(history) |-> LET m == history[i] IN
      [m EXCEPT !.isPlayingAudio = b]])

RemoveAt(s, i) == SubSeq(s, 1, i - 1) \o SubSeq(s, i + 1, Len(s))

\* Variant of PlayAudioAt without the test of the message's playing flag.
PlayAudioAtUnguarded(i) ==
  LET message == chatHistory[i]
  IN /\ Len(audioTasks) < MaxPending
     /\ chatHistory' = SetPlaying(chatHistory, message.id, TRUE)
     /\ audioTasks' = Append(audioTasks, [id |-> message.id, pc |-> "tts"])
     /\ savePending' = (ver = 1)
     /\ last' = Quiet
     /\ UNCHANGED <<ver, now, isLoading, storage, flows, ui, rec>>

\* playAudio(message) up to its await: lines 205-211 / 533-539; message is
\* the element of chatHistory the template rendered.  The model follows a
\* textToSpeech call only while fewer than MaxPending are pending.
PlayAudioAt(i) ==
  LET message == chatHistory[i]
  IN IF message.isPlayingAudio
     THEN /\ last' = [Quiet EXCEPT !.op = "playAudioReturned"]
          /\ UNCHANGED <<ver, now, chatHistory, isLoading, storage, savePending,
                         flows, audioTasks, ui, rec>>
     ELSE /\ Len(audioTasks) < MaxPending
          /\ chatHistory' = SetPlaying(chatHistory, message.id, TRUE)
          /\ audioTasks' = Append(audioTasks, [id |-> message.id, pc |-> "tts"])
          /\ savePending' = (ver = 1)
          /\ last' = Quiet
          /\ UNCHANGED <<ver, now, isLoading, storage, flows, ui, rec>>

PlayAudio == \E i \in 1..Len(chatHistory) : PlayAudioAt(i)

\* textToSpeech resolved and audio.play() was called: lines 212-219.
TtsOk ==
  \E i \in 1..Len(audioTasks) :
    /\ audioTasks[i].pc = "tts"
    /\ audioTasks' = [audioTasks EXCEPT ![i].pc = "playing"]
    /\ last' = Quiet /\ UNCHANGED <<ver, now, chatHistory, isLoading, storage, savePending, flows,
                   ui, rec>>

\* textToSpeech rejected (the catch of lines 220-223), or playback ended
\* (onended, lines 216-219): the flag is cleared.
AudioCleared ==
  \E i \in 1..Len(audioTasks) :
    /\ chatHistory' = SetPlaying(chatHistory, audioTasks[i].id, FALSE)
    /\ audioTasks' = RemoveAt(audioTasks, i)
    /\ savePending' = (ver = 1)
    /\ last' = Quiet /\ UNCHANGED <<ver, now, isLoading, storage, flows, ui, rec>>

\* play() rejected or the element errored: no handler runs.
PlaybackFailed ==
  \E i \in 1..Len(audioTasks) :
    /\ audioTasks[i].pc = "playing"
    /\ audioTasks' = RemoveAt(audioTasks, i)
    /\ last' = Quiet /\ UNCHANGED <<ver, now, chatHistory, isLoading, storage, savePending, flows,
                   ui, rec>>

\* ------------------------------------------------------ specifications
ChatStep == \E k \in FlowIds : ChatFragment(k) \/ ChatStreamEnd(k) \/ ChatProviderError(k)
ChatStepB == \E k \in FlowIds : ChatFragmentB(k) \/ ChatStreamEnd(k) \/ ChatProviderError(k)
ChatStepEnd == \E k \in FlowIds : ChatStreamEnd(k) \/ ChatProviderError(k)
ImageStep == \E k \in FlowIds : ImageOk(k) \/ ImageFail(k)
VideoStep ==
  \E k \in FlowIds :
    \/ VideoSubmitted(k)
    \/ VideoPoll(k)
    \/ VideoPolled(k)
    \/ VideoFetched(k)
    \/ VideoFail(k)

\* Chat exchanges, one after the other, over a loaded or empty history.
NextChat ==
  \/ Tick
  \/ SetInputA
  \/ SendMessage
  \/ StartNewChat
  \/ StartNewConversation
  \/ ChatStep

SpecChat == Init /\ [][NextChat]_vars

\* Exchanges of the three modes, with uploads.
NextSend ==
  \/ SetInput
  \/ SetMode
  \/ HandleImageSelected
  \/ RemoveUploadedFile
  \/ SendMessage
  \/ StartNewChat
  \/ ChatStepB
  \/ ImageStep
  \/ VideoStep

InitEmpty == Init /\ storage = Absent
SpecSend == InitEmpty /\ [][NextSend]_vars

\* The history and its stored copy.
NextStore ==
  \/ Tick
  \/ SetInputA
  \/ SendMessage
  \/ ChatStepB
  \/ StartNewConversation
  \/ SaveEffect
  \/ Reload
  \/ PlayAudio
  \/ AudioCleared

InitStore == Init /\ ver = 1
SpecStore == InitStore /\ [][NextStore]_vars

\* Exchanges next to recording and transcription.
NextLock ==
  \/ SetInputA
  \/ SendMessage
  \/ StartNewChat
  \/ StartNewConversation
  \/ ChatStepEnd
  \/ StartRecording
  \/ MicGranted
  \/ StopRecording
  \/ TranscribeStart
  \/ TranscribeEnd

SpecLock == InitEmpty /\ [][NextLock]_vars

\* Saving conversations whose messages carry attachments and flags.
NextSave ==
  \/ SetInputA
  \/ HandleFileSelected
  \/ SendMessage
  \/ ChatStepEnd
  \/ PlayAudio
  \/ AudioCleared
  \/ SaveEffect
SpecSave == InitStore /\ [][NextSave]_vars

\* Loading what is found under the key.
NextLoad ==
  \/ Tick
  \/ StorageEdited
  \/ Reload
  \/ SetInputA
  \/ SendMessage
  \/ ChatStepEnd
  \/ SaveEffect
SpecLoad == InitStore /\ [][NextLoad]_vars

\* Speech playback of the messages of loaded and new conversations.
NextAudio ==
  \/ Tick
  \/ SetInputA
  \/ SendMessage
  \/ ChatStepEnd
  \/ StartNewConversation
  \/ PlayAudio
  \/ TtsOk
  \/ AudioCleared
  \/ PlaybackFailed
SpecAudio == Init /\ [][NextAudio]_vars

\* The microphone: requests, grants, denials, stops and transcriptions.
NextRecord ==
  \/ SetInputA
  \/ StartRecording
  \/ MicGranted
  \/ MicDenied
  \/ StopRecording
  \/ TranscribeStart
  \/ TranscribeEnd

SpecRecord == InitEmpty /\ [][NextRecord]_vars

\* Video exchanges next to recording and transcription.
NextPoll ==
  \/ SetVideoMode
  \/ SendMessage
  \/ VideoStep
  \/ StartRecording
  \/ MicGranted
  \/ StopRecording
  \/ TranscribeStart
  \/ TranscribeEnd

SpecPoll == InitEmpty /\ [][NextPoll]_vars

\* -------------------------------------------------------------- claims
ActiveFlows == {k \in FlowIds : Active(k)}

\* The placeholder of activation f, while the history still holds it.
HasPlaceholder(f) == f.pos > 0
PlaceholderOf(f) == chatHistory[f.pos]

RECURSIVE ConcatTexts(_)
ConcatTexts(frags) ==
  IF frags = <<>> THEN <<>> ELSE ChunkText(Head(frags)) \o ConcatTexts(Tail(frags))

Range(seq) == {seq[i] : i \in 1..Len(seq)}

\* C1: at most one sendMessage exchange is in flight at any time, under any
\* interleaving of sendMessage, startNewChat, startNewConversation,
\* recording with its transcription, playAudio and gateway responses.
\* (Stated as the claim has it; the transcription's own isLoading.set(false)
\* lets a second exchange through.)
C1_OneExchangeInFlight == Cardinality(ActiveFlows) <= 1

\* C2: sendMessage is a no-op when the trimmed input is empty and no upload
\* is pending, and when the global loading flag is set: from every reachable
\* state of that kind, sendMessage leaves history, input, pending upload and
\* loading flag as they are and starts no activation (no gateway call).
C2_Blocked == (Trim(userInput) = <<>> /\ uploadedFile = None) \/ isLoading

C2_SendIsNoOpWhenBlocked ==
  C2_Blocked =>
    LET r == Send(ver, now, currentMode, chatHistory, userInput, uploadedFile,
                  isLoading, flows)
    IN /\ ~r.accepted
       /\ r.history = chatHistory
       /\ r.input = userInput
       /\ r.upload = uploadedFile
       /\ r.loading = isLoading
       /\ r.flows = flows

\* C2's cases: a send while an exchange is in flight with text typed, and a
\* send of white space with nothing uploaded while nothing is in flight.
C2_Witness ==
  \/ isLoading /\ ActiveFlows # {} /\ Trim(userInput) # <<>>
       /\ IsSome(uploadedFile) /\ Len(chatHistory) = 2
  \/ ~isLoading /\ userInput = <<" ">> /\ uploadedFile = None
       /\ Len(chatHistory) = 2

\* C3: in chat mode the placeholder's text is, after each fragment, the
\* concatenation in arrival order of the texts of the fragments received so
\* far (an absent text counting as empty), and once the stream has ended it
\* is the concatenation of the texts of all its fragments.
C3_TextIsConcatenation ==
  /\ \A k \in FlowIds :
       flows[k].pc = "chat" /\ HasPlaceholder(flows[k]) =>
         PlaceholderOf(flows[k]).text = ConcatTexts(flows[k].frags)
  /\ (last.op = "return" /\ last.flow.pc = "chat" /\ HasPlaceholder(last.flow)) =>
       PlaceholderOf(last.flow).text = ConcatTexts(last.flow.frags)

\* C3's case: a stream of two different texts, in each order, has ended.
C3_Witness ==
  /\ last.op = "return" /\ last.outcome = "ok"
  /\ last.flow.frags = <<FC, FB>>
  /\ PlaceholderOf(last.flow).text = <<"b", "a">>

\* C4: the settled message's citation list contains every citation any
\* fragment of the stream supplied, and none more than once.  (Stated as the
\* claim has it.)
Supplied(frags) ==
  UNION {Range(Get(frags[i].groundingChunks)) :
           i \in {j \in 1..Len(frags) : IsSome(frags[j].groundingChunks)}}

Citations(m) == IF IsSome(m.groundingChunks) THEN Get(m.groundingChunks) ELSE <<>>

NoDuplicates(seq) == \A i, j \in 1..Len(seq) : seq[i] = seq[j] => i = j

C4_CitationsNoLossNoDuplicate ==
  (last.op = "return" /\ last.flow.pc = "chat" /\ HasPlaceholder(last.flow)) =>
    LET cited == Citations(PlaceholderOf(last.flow))
    IN /\ Supplied(last.flow.frags) \subseteq Range(cited)
       /\ NoDuplicates(cited)

\* C5: when the provider fails during a chat stream, before the first
\* fragment or after any number of fragments, the message's text is exactly
\* the fixed fallback string and its loading flag has gone from true to
\* false.  (Stated as the claim has it; handleChat appends the error
\* fragment's text to the text streamed before the failure.)
C5_TextIsExactlyFallback ==
  (last.op = "return" /\ last.outcome = "streamError" /\ HasPlaceholder(last.flow)) =>
    /\ PlaceholderOf(last.flow).text = StreamErrorText
    /\ ~PlaceholderOf(last.flow).isLoading

\* C6: after startNewConversation(), once the save effect it triggered has
\* run and nothing else has happened, the history is empty and the storage
\* entry is absent.  (Stated as the claim has it; the effect writes the
\* empty list back under the key.)
C6_StorageAbsentAfterNewConversation ==
  last.op = "newConversationSaved" => chatHistory = <<>> /\ storage = Absent

\* C7: an exception raised while sendMessage awaits the image or video
\* handler (the chat handler's stream raises none: it yields the error
\* fragment) leaves the placeholder with the fixed failure text of that
\* handler and version and its loading flag false, and leaves the global
\* loading flag false, so that a later sendMessage is accepted.
C7_ExceptionSettlesAndUnlocks ==
  (last.op = "return" /\ last.outcome = "failed") =>
    /\ HasPlaceholder(last.flow) =>
         /\ PlaceholderOf(last.flow).text =
              IF ver = 2 THEN SendFailText
              ELSE IF last.flow.pc = "image" THEN ImageFailText ELSE VideoFailText
         /\ ~PlaceholderOf(last.flow).isLoading
    /\ ~isLoading
    /\ Send(ver, now, currentMode, chatHistory, <<"next">>, None, isLoading,
            flows).accepted

\* C7's case: image generation rejected in version 2, caught by sendMessage.
C7_Witness ==
  /\ ver = 2 /\ last.op = "return" /\ last.outcome = "failed"
  /\ last.flow.pc = "image"
  /\ PlaceholderOf(last.flow).text = SendFailText
  /\ ~isLoading

VideoPcs == {"videoSubmit", "videoSleep", "videoPoll", "videoFetch"}

\* C8: video flow, success: for n >= 0 handles with done = false followed by
\* a handle with done = true and result URI U, getVideosOperation is called
\* exactly once per not-done handle, and the flow ends with the placeholder
\* carrying a video attachment fetched from U, its loading flag false and
\* the global loading flag false.
C8_VideoSuccess ==
  /\ \A k \in FlowIds :
       /\ flows[k].pc = "videoSleep" => flows[k].polls + 1 = flows[k].notDone
       /\ flows[k].pc \in {"videoPoll", "videoFetch"} =>
            flows[k].polls = flows[k].notDone
  /\ (last.op = "return" /\ last.outcome = "ok" /\ last.flow.pc = "videoFetch") =>
       /\ last.flow.operation.done /\ IsSome(last.flow.operation.uri)
       /\ last.flow.polls = last.flow.notDone
       /\ HasPlaceholder(last.flow) =>
            /\ IsSome(PlaceholderOf(last.flow).video)
            /\ Get(PlaceholderOf(last.flow).video).dataUrl = Get(last.flow.operation.uri)
            /\ Get(PlaceholderOf(last.flow).video).mimeType = "video/mp4"
            /\ ~PlaceholderOf(last.flow).isLoading
       /\ ~isLoading

\* C8's case: [done=false, done=false, done=true(uri=V)].
C8_Witness ==
  /\ last.op = "return" /\ last.outcome = "ok" /\ last.flow.pc = "videoFetch"
  /\ last.flow.notDone = 2 /\ last.flow.polls = 2
  /\ PlaceholderOf(last.flow).video = Some(FetchedVideo("V"))

\* C9: video flow, failure: when the final handle is done without a result
\* URI, or job submission, a poll or the video fetch fails, the placeholder
\* ends with the fixed failure text, no video attachment and its loading
\* flag false, and the global loading flag is false.
C9_VideoFailure ==
  (last.op = "return" /\ last.flow.pc \in VideoPcs
     /\ last.outcome \in {"noUri", "failed"}) =>
    /\ HasPlaceholder(last.flow) =>
         /\ PlaceholderOf(last.flow).text =
              IF ver = 1 THEN VideoFailText
              ELSE IF last.outcome = "noUri" THEN VideoFailText2 ELSE SendFailText
         /\ PlaceholderOf(last.flow).video = None
         /\ ~PlaceholderOf(last.flow).isLoading
    /\ ~isLoading

\* C9's case: [done=false, done=true without a URI].
C9_Witness ==
  /\ last.op = "return" /\ last.outcome = "noUri"
  /\ last.flow.notDone = 1 /\ last.flow.polls = 1
  /\ PlaceholderOf(last.flow).text \in {VideoFailText, VideoFailText2}
  /\ PlaceholderOf(last.flow).video = None

\* C10: round trip: saving a conversation and then loading it yields a
\* history with the same number of messages in the same order, each with the
\* same role, text and grounding citations (ids and transient flags
\* ignored); and a history just loaded is the stored list, entry by entry.
SameContent(a, b) ==
  /\ Len(a) = Len(b)
  /\ \A i \in 1..Len(a) :
       /\ a[i].role = b[i].role
       /\ a[i].text = b[i].text
       /\ a[i].groundingChunks = b[i].groundingChunks

C10_RoundTrip ==
  /\ SameContent(
       LoadChatHistory(SaveChatHistory(chatHistory, storage, TRUE), now).history,
       chatHistory)
  /\ (last.op = "reload" /\ storage.kind = "list") =>
       SameContent(chatHistory, storage.items)

\* C10's case: a conversation of an exchange streamed with citations, after
\* a loaded one, was saved and loaded again.
C10_Witness ==
  /\ last.op = "reload"
  /\ Len(chatHistory) = 4
  /\ chatHistory[4].role = "model"
  /\ chatHistory[4].text = <<"a">>
  /\ chatHistory[4].groundingChunks = Some(<<"c1">>)

\* C11: message ids are unique and strictly increase in insertion order in
\* every reachable history, for any non-decreasing clock.  (Stated as the
\* claim has it; a load gives ids clock + index, a send right after it the
\* ids clock and clock + 1.)
C11_IdsStrictlyIncrease ==
  \A i, j \in 1..Len(chatHistory) :
    i < j => chatHistory[i].id < chatHistory[j].id

\* C12: in every reachable state at most one message of the history has
\* isLoading = true.  (Stated as the claim has it; the second exchange that
\* C1's scenario lets through adds a second loading placeholder.)
LoadingMessages == {i \in 1..Len(chatHistory) : chatHistory[i].isLoading}

C12_AtMostOneLoadingMessage == Cardinality(LoadingMessages) <= 1

\* A step that replaces the history instead of extending or updating it.
HistoryReplaced == Reload \/ StartNewConversation \/ (ver = 1 /\ StartNewChat)

\* Message i is a settled model message and the step leaves it settled, with
\* the text and the attachments it had.
StaysSettled(i) ==
  /\ i <= Len(chatHistory')
  /\ ~chatHistory'[i].isLoading
  /\ chatHistory'[i].text = chatHistory[i].text
  /\ chatHistory'[i].image = chatHistory[i].image
  /\ chatHistory'[i].video = chatHistory[i].video
  /\ chatHistory'[i].audio = chatHistory[i].audio

\* C13: once a model message's loading flag is false it is never true again
\* and its text and attachments are not changed by any later step of any
\* flow (while the conversation it belongs to is kept).  (Stated as the
\* claim has it; an exchange whose placeholder repeats the id of a settled
\* message, C11, rewrites that message too.)
C13_SettledIsTerminal ==
  [][~HistoryReplaced =>
       \A i \in 1..Len(chatHistory) :
         (chatHistory[i].role = "model" /\ ~chatHistory[i].isLoading) =>
           StaysSettled(i)]_vars

\* What startNewConversation() (history [], input '', upload null), then
\* userInput.set(prompt), then sendMessage() leave, from the current state.
NewConversationThenSend(prompt) ==
  Send(ver, now, currentMode, <<>>, prompt, None, isLoading, Orphaned(flows))

\* C14: startNewChat(prompt) is equivalent to startNewConversation() followed
\* by setting the input to prompt and calling sendMessage(): both leave the
\* same history, input, pending upload, loading flag and gateway request,
\* with the previous messages removed.  (Stated as the claim has it; the
\* second version's startNewChat starts no new conversation.)
C14_StartNewChatIsComposition ==
  [][StartNewChat =>
       \E prompt \in Prompts :
         LET r == NewConversationThenSend(prompt)
         IN /\ chatHistory' = r.history
            /\ userInput' = r.input
            /\ uploadedFile' = r.upload
            /\ isLoading' = r.loading
            /\ flows' = r.flows]_vars

\* C15: playAudio(message) on a message whose isPlayingAudio flag is true
\* makes no textToSpeech call and leaves the history and every other state
\* variable unchanged.
C15_PlayAudioOnPlayingIsNoOp ==
  [][\A i \in 1..Len(chatHistory) :
       (chatHistory[i].isPlayingAudio /\ PlayAudioAt(i)) =>
         UNCHANGED <<ver, now, currentMode, chatHistory, isLoading, isRecording,
                     micError, userInput, uploadedFile, storage, savePending,
                     flows, micPending, mediaRecorder, liveStreams,
                     transcribing,
                     audioTasks>>]_vars

\* C15's case: playAudio has just returned at its guard while a message is
\* marked playing and nothing speaks for it any more, so that a
\* textToSpeech call could have been made.
C15_Witness ==
  /\ last.op = "playAudioReturned"
  /\ \E i \in 1..Len(chatHistory) : chatHistory[i].isPlayingAudio
  /\ Len(audioTasks) < MaxPending

\* C16: every message that playAudio marks as playing eventually has its
\* playing flag cleared, whether speech synthesis fails, playback fails to
\* start or errors, or playback runs to completion.  Only the catch of
\* textToSpeech's await and the onended handler clear the flag, so the claim
\* requires that a marked message always has a playAudio activation that can
\* still reach one of the two.  (Stated as the claim has it; a rejected
\* audio.play() or an element error runs neither.)
C16_PlayingIsClearedLater ==
  \A i \in 1..Len(chatHistory) :
    chatHistory[i].isPlayingAudio =>
      \E t \in 1..Len(audioTasks) : audioTasks[t].id = chatHistory[i].id

\* A stored value that is a list of entries of role, text and
\* groundingChunks and nothing else.
OnlyContent(st) ==
  /\ st.kind = "list"
  /\ \A i \in 1..Len(st.items) :
       DOMAIN st.items[i] = {"role", "text", "groundingChunks"}

\* C17: every value written under the storage key is a list whose entries
\* carry only role, text and groundingChunks: no isLoading or isPlayingAudio
\* flag, no id and no image/video/audio attachment is persisted, whatever the
\* history contains when the save runs (a save whose setItem throws writes
\* nothing).
C17_OnlyContentIsPersisted ==
  [][SaveEffect => (storage' = storage \/ OnlyContent(storage'))]_vars

\* C17's case: the value under the key is the one saved from a history that
\* holds an attachment, a loading message and a playing message.
C17_Witness ==
  /\ ~savePending
  /\ storage = Serialize(chatHistory)
  /\ \E i \in 1..Len(chatHistory) : IsSome(chatHistory[i].image)
  /\ \E i \in 1..Len(chatHistory) : chatHistory[i].isLoading
  /\ \E i \in 1..Len(chatHistory) : chatHistory[i].isPlayingAudio

\* A stored value that is not parseable, or parseable but not a list of
\* messages.
Corrupt(st) ==
  \/ st.kind \in {"empty", "unparseable", "nonlist"}
  \/ /\ st.kind = "list"
     /\ \E i \in 1..Len(st.items) : st.items[i].role \notin {"user", "model"}

\* C18: when the stored value is corrupt (not parseable, or parseable but not
\* a list of messages), loading leaves the history empty and removes the
\* storage entry.  (Stated as the claim has it; loadChatHistory checks
\* neither the elements of a parsed array nor an empty string.)
C18_CorruptIsDiscarded ==
  [][(Reload /\ Corrupt(storage)) =>
       (chatHistory' = <<>> /\ storage' = Absent)]_vars


\* C19: at most one audio capture session is active at a time: whatever the
\* interleaving of startRecording, stopRecording and the microphone grants,
\* no second recorder is created while a first start is pending or a first
\* recording is active, so at most one granted stream is live (not stopped).
C19_OneCaptureSession == liveStreams <= 1

\* C20: when microphone access is denied or unavailable, startRecording sets
\* the microphone error state to a non-empty message and leaves the
\* recording flag false, and every later startRecording clears the error
\* state on entry.
C20_DenialSetsMicError ==
  [][/\ MicDenied => (IsSome(micError') /\ Len(Get(micError')) > 0 /\ ~isRecording')
     /\ StartRecording => micError' = None]_vars

\* C21: the video flow leaves its polling loop only when a polled handle
\* reports done or a gateway call fails, a flow that leaves it by returning
\* has its message settled and the loading flag cleared, and while the flow
\* is in the loop every sendMessage is a no-op.
Polling(k) == flows[k].pc \in {"videoSleep", "videoPoll"}

LeftLoopProperly(k) ==
  \/ /\ flows'[k].pc = "videoFetch"
     /\ flows'[k].operation.done
  \/ /\ last'.op = "return"
     /\ last'.outcome \in {"failed", "noUri"}
     /\ last'.outcome = "noUri" => last'.flow.operation.done
     /\ ~isLoading'
     /\ \A i \in 1..Len(chatHistory') :
          chatHistory'[i].id = last'.flow.modelId => ~chatHistory'[i].isLoading

C21_PollingLoop ==
  [][\A k \in FlowIds :
       Polling(k) =>
         /\ SendMessage => UNCHANGED <<chatHistory, flows, isLoading>>
         /\ flows'[k].pc \notin {"videoSleep", "videoPoll"} => LeftLoopProperly(k)]_vars

\* C22: a pending upload is never discarded unsent: the upload slot goes
\* from holding an attachment to empty only when sendMessage has put that
\* attachment on a user message, or by removeUploadedFile or by
\* startNewConversation.
Attached(upload, history) ==
  \E i \in 1..Len(history) :
    /\ history[i].role = "user"
    /\ upload \in {history[i].image, history[i].video, history[i].audio}

C22_UploadNeverDiscardedUnsent ==
  [][(IsSome(uploadedFile) /\ uploadedFile' = None) =>
       \/ RemoveUploadedFile
       \/ StartNewConversation
       \/ ver = 1 /\ StartNewChat
       \/ Attached(uploadedFile, chatHistory')]_vars

\* C23: messages are never deleted individually: every step either keeps
\* all existing messages, in the same order, with the same ids and roles
\* (appending new ones or updating fields by id), or it is
\* startNewConversation (alone, or as the first call of startNewChat) and
\* leaves none of them.
KeepsMessages ==
  /\ Len(chatHistory') >= Len(chatHistory)
  /\ \A i \in 1..Len(chatHistory) :
       /\ chatHistory'[i].id = chatHistory[i].id
       /\ chatHistory'[i].role = chatHistory[i].role

C23_NeverDeletedIndividually ==
  [][\/ KeepsMessages
     \/ StartNewConversation /\ chatHistory' = <<>>
     \/ ver = 1 /\ StartNewChat]_vars

\* An exchange over an existing history returned with its streamed text.
C23_Witness ==
  /\ Len(chatHistory) = 4
  /\ last.op = "return"
  /\ last.outcome = "ok"
  /\ chatHistory[4].text # <<>>

\* C24: the persisted entry mirrors the history: whenever the save effect
\* has run after the last change of the history, the value under the key is
\* the list of the history's messages projected to role, text and
\* groundingChunks, in order.
C24_StoreMirrorsHistory ==
  (ver = 1 /\ ~savePending) => storage = Serialize(chatHistory)

\* C25: a startNewChat(prompt) with a non-blank prompt results in the prompt
\* being sent from every state, one with an exchange in flight included:
\* the history holds a user message whose text is the trimmed prompt, and
\* the prompt is not left unsent in the input.
Sent(text, history) ==
  \E i \in 1..Len(history) : history[i].role = "user" /\ history[i].text = text

C25_PromptIsSent ==
  [][\A prompt \in Prompts :
       (Trim(prompt) # <<>> /\ StartNewChatOf(prompt)) =>
         /\ Sent(Trim(prompt), chatHistory')
         /\ userInput' # prompt]_vars

\* C26: results of an abandoned exchange never leak into a new
\* conversation: once startNewConversation() was called while an exchange
\* was in flight, no later step of that exchange (fragment, status text,
\* attachment, failure text, settle) changes the history, and an empty
\* history stays empty until a sendMessage is accepted.
Abandoned(k) == Active(k) /\ flows[k].pos = 0

C26_AbandonedNeverLeaks ==
  [][/\ \A k \in FlowIds :
          (Abandoned(k) /\ flows'[k] # flows[k]) => chatHistory' = chatHistory
     /\ (chatHistory = <<>> /\ chatHistory' # <<>>) => (SendMessage \/ StartNewChat)]_vars

\* C27: every user message that sendMessage appends to the history has a
\* non-empty text or exactly one attachment (image, video or audio), and
\* never more than one attachment, whatever the mime type of the pending
\* upload.
AttachmentCount(m) == Cardinality({a \in {"image", "video", "audio"} : IsSome(m[a])})

AcceptedSend == (SendMessage \/ StartNewChat) /\ ~isLoading /\ isLoading'

C27_UserMessageHasContent ==
  [][AcceptedSend =>
       LET m == chatHistory'[Len(chatHistory') - 1]
       IN /\ m.role = "user"
          /\ m.text # <<>> \/ AttachmentCount(m) = 1
          /\ AttachmentCount(m) <= 1]_vars

====
